---- MODULE Spec2Model ----
(***************************************************************************)
(* Model of gce-plate-solver/plate-solver.py: the Pub/Sub callback         *)
(* msg_callback and the per-image pipeline solve_file.                     *)
(*                                                                         *)
(* Strings are sequences of tokens ("PAN001", "/", "fits", ...), so that   *)
(* str.split, str.replace, os.path.join and the f-strings of the source    *)
(* are computed rather than assumed.  Python's "name is not bound" is the  *)
(* value Unbound; reading it raises UnboundLocalError.                     *)
(***************************************************************************)
EXTENDS Naturals, Sequences, FiniteSets, TLC

\* Largest number of column/value pairs passed to meta_insert.
MaxCols == 2

\* Number of messages published to the subscription in one behaviour.
NumMsgs == 2

\* Largest len(wcs_info) the WCS inspection may report.
MaxWcsLen == 2

\* pubsub.types.FlowControl(max_messages=1)
max_messages == 1

Msgs == 1..NumMsgs

Unbound == <<"<unbound>">>
None == <<"<None>">>

----------------------------------------------------------------------------
(* String helpers, on token sequences. *)

\* Index of the first occurrence of token sep in s, 0 when absent.
FirstIndex(s, sep) ==
    IF \E i \in 1..Len(s) : s[i] = sep
    THEN CHOOSE i \in 1..Len(s) : s[i] = sep /\ \A j \in 1..(i - 1) : s[j] # sep
    ELSE 0

\* str.split(sep): the list of pieces; a string without sep is one piece.
RECURSIVE Split(_, _)
Split(s, sep) ==
    LET i == FirstIndex(s, sep)
    IN  IF i = 0 THEN <<s>>
        ELSE <<SubSeq(s, 1, i - 1)>> \o Split(SubSeq(s, i + 1, Len(s)), sep)

\* str.replace(old, new) for single-token old and new.
Replace(s, old, new) == [i \in 1..Len(s) |-> IF s[i] = old THEN new ELSE s[i]]

\* os.path.join of a list of components.
RECURSIVE PathJoin(_)
PathJoin(parts) ==
    IF Len(parts) = 0 THEN <<>>
    ELSE IF Len(parts) = 1 THEN parts[1]
    ELSE parts[1] \o <<"/">> \o PathJoin(Tail(parts))

\* Tokens of the vocabulary that contain the substring 'pointing'.
PointingTokens == {"pointing", "pointing01"}

\* 'pointing' in object_id
IsPointing(object_id) == \E i \in 1..Len(object_id) : object_id[i] \in PointingTokens

----------------------------------------------------------------------------
(* The object keys a message may carry. *)

KeyGood ==
    <<"PAN001", "/", "M42", "/", "14d3bd", "/", "20220101T000000", "/",
      "20220101T000500", ".", "fits", ".", "fz">>
KeyPointing ==
    <<"PAN001", "/", "M42", "/", "14d3bd", "/", "20220101T000000", "/",
      "pointing01", ".", "fits", ".", "fz">>
KeyFourSegments ==
    <<"PAN001", "/", "M42", "/", "14d3bd", "/", "20220101T000000", ".", "fits", ".", "fz">>
KeySixSegments ==
    <<"PAN001", "/", "M42", "/", "14d3bd", "/", "20220101T000000", "/", "extra", "/",
      "20220101T000000", ".", "fits", ".", "fz">>
KeyPointingShort == <<"pointing", "/", "20220101T000000", ".", "fits", ".", "fz">>

ObjectKeys == {KeyGood, KeyPointing, KeyFourSegments, KeySixSegments, KeyPointingShort}

----------------------------------------------------------------------------
(* Local file names. *)

\* download_blob: '/tmp' is a directory, so the blob lands in
\* os.path.join('/tmp', source_blob_name.replace('/', '_')).
DownloadPath(object_id) == PathJoin(<< <<"/tmp">>, Replace(object_id, "/", "_") >>)

\* fits_utils.fpack(fn, unpack=True) names its output fn.replace('.fz', '').
RECURSIVE UnpackedName(_)
UnpackedName(p) ==
    IF Len(p) = 0 THEN <<>>
    ELSE IF Len(p) >= 2 /\ p[1] = "." /\ p[2] = "fz"
         THEN UnpackedName(SubSeq(p, 3, Len(p)))
         ELSE <<p[1]>> \o UnpackedName(Tail(p))

\* fits_utils.fpack(fn) names its output fn.replace('.fits', '.fits.fz').
RECURSIVE PackedName(_)
PackedName(p) ==
    IF Len(p) = 0 THEN <<>>
    ELSE IF Len(p) >= 2 /\ p[1] = "." /\ p[2] = "fits"
         THEN <<".", "fits", ".", "fz">> \o PackedName(SubSeq(p, 3, Len(p)))
         ELSE <<p[1]>> \o PackedName(Tail(p))

\* Variant of CsvKey: the sequence directory and the image time are swapped.
CsvKeyTimesSwapped(unit_id, field, cam_id, seq_time, prefix, image_time) ==
    PathJoin(<<unit_id, field, cam_id, image_time, <<prefix, "-">> \o seq_time \o <<".", "csv">> >>)

\* os.path.join(unit_id, field, cam_id, seq_time, f'{prefix}-{image_time}.csv')
CsvKey(unit_id, field, cam_id, seq_time, prefix, image_time) ==
    PathJoin(<<unit_id, field, cam_id, seq_time, <<prefix, "-">> \o image_time \o <<".", "csv">> >>)

\* os.path.join('/tmp', key.replace('/', '_'))
LocalCsvPath(key) == PathJoin(<< <<"/tmp">>, Replace(key, "/", "_") >>)

----------------------------------------------------------------------------
VARIABLES
    queue,               \* messages published and not yet delivered
    attrs,               \* message.attributes['filename'] of each message
    cb_pc,               \* position of msg_callback for each message
    cb_exc,              \* an exception is propagating through msg_callback's finally
    ack_count,           \* number of message.ack() calls per message
    runs,                \* number of solve_file invocations per message
    catalog_db_cursor,   \* "unbound", "open" or "closed"
    metadata_db_cursor,  \* "unbound", "open" or "closed"
    sf_pc,               \* position of solve_file for each message
    frame,               \* local variables of the running solve_file
    result,              \* how solve_file ended: returned value or raised exception
    files,               \* files that exist under /tmp
    trace,               \* calls made by the solve_file run in progress for each message
    mi                   \* the meta_insert call: position, arguments, locals, result

vars == <<queue, attrs, cb_pc, cb_exc, ack_count, runs, catalog_db_cursor,
          metadata_db_cursor, sf_pc, frame, result, files, trace, mi>>

\* The locals of solve_file before any assignment.
EmptyFrame ==
    [unit_id |-> Unbound, field |-> Unbound, cam_id |-> Unbound, seq_time |-> Unbound,
     file |-> Unbound, image_time |-> Unbound, sequence_id |-> Unbound,
     image_id |-> Unbound, fz_fn |-> Unbound, wcs_len |-> 0, fits_fn |-> Unbound,
     solve_info |-> Unbound, is_solved |-> FALSE, status |-> Unbound,
     stamps_fn |-> Unbound, local_stamps_fn |-> Unbound, bucket_csv |-> Unbound,
     local_csv |-> Unbound, ret |-> Unbound]

NoResult == [kind |-> "none", status |-> Unbound, filename |-> Unbound]
Returned(status, filename) == [kind |-> "returned", status |-> status, filename |-> filename]
Raised(exc) == [kind |-> "raised", status |-> Unbound, filename |-> exc]

\* One call made by a run: the operation, its argument and whether it succeeded.
\* "create" and "remove" record the local files the run writes and deletes;
\* "to_csv" records a CSV that could not be written.
Event(op, arg, ok) == [op |-> op, arg |-> arg, ok |-> ok]

\* meta_insert is not being called.
NoInsert ==
    [pc |-> "idle", table |-> Unbound, kwargs |-> <<>>, cursor |-> "none",
     col_names |-> Unbound, col_values |-> Unbound, update_cols |-> Unbound,
     insert_sql |-> Unbound, executed |-> "no", ret |-> Unbound]

Init ==
    /\ queue = [i \in 1..NumMsgs |-> i]
    /\ attrs \in [Msgs -> ObjectKeys]
    /\ cb_pc = [m \in Msgs |-> "queued"]
    /\ cb_exc = [m \in Msgs |-> FALSE]
    /\ ack_count = [m \in Msgs |-> 0]
    /\ runs = [m \in Msgs |-> 0]
    /\ catalog_db_cursor = [m \in Msgs |-> "unbound"]
    /\ metadata_db_cursor = [m \in Msgs |-> "unbound"]
    /\ sf_pc = [m \in Msgs |-> "idle"]
    /\ frame = [m \in Msgs |-> EmptyFrame]
    /\ result = [m \in Msgs |-> NoResult]
    /\ files = {}
    /\ trace = [m \in Msgs |-> <<>>]
    /\ mi = NoInsert

----------------------------------------------------------------------------
(* msg_callback, lines 56-71, one action per statement. *)

\* Messages delivered to a callback and not yet acknowledged.
Outstanding == {m \in Msgs : cb_pc[m] # "queued" /\ ack_count[m] = 0}

\* Variant of Deliver: the subscription has no flow control.
DeliverUnthrottled(m) ==
    /\ Len(queue) > 0
    /\ Head(queue) = m
    /\ queue' = Tail(queue)
    /\ cb_pc' = [cb_pc EXCEPT ![m] = "get_catalog"]
    /\ UNCHANGED <<attrs, cb_exc, ack_count, runs, catalog_db_cursor,
                   metadata_db_cursor, sf_pc, frame, result, files, trace>>
    /\ UNCHANGED mi

\* The subscriber hands the next message to msg_callback; flow control
\* holds it back while max_messages messages are outstanding.
Deliver(m) ==
    /\ Len(queue) > 0
    /\ Head(queue) = m
    /\ Cardinality(Outstanding) < max_messages
    /\ queue' = Tail(queue)
    /\ cb_pc' = [cb_pc EXCEPT ![m] = "get_catalog"]
    /\ UNCHANGED <<attrs, cb_exc, ack_count, runs, catalog_db_cursor,
                   metadata_db_cursor, sf_pc, frame, result, files, trace>>
    /\ UNCHANGED mi

\* catalog_db_cursor = get_cursor(port=5433, ...): returns a cursor or raises.
GetCatalogCursor(m) ==
    /\ cb_pc[m] = "get_catalog"
    /\ \E ok \in BOOLEAN :
          IF ok
          THEN /\ catalog_db_cursor' = [catalog_db_cursor EXCEPT ![m] = "open"]
               /\ cb_pc' = [cb_pc EXCEPT ![m] = "get_metadata"]
               /\ UNCHANGED cb_exc
          ELSE /\ cb_exc' = [cb_exc EXCEPT ![m] = TRUE]
               /\ cb_pc' = [cb_pc EXCEPT ![m] = "ack"]
               /\ UNCHANGED catalog_db_cursor
    /\ UNCHANGED <<queue, attrs, ack_count, runs, metadata_db_cursor, sf_pc, frame,
                   result, files, trace>>
    /\ UNCHANGED mi

\* metadata_db_cursor = get_cursor(port=5432, ...): returns a cursor or raises.
GetMetadataCursor(m) ==
    /\ cb_pc[m] = "get_metadata"
    /\ \E ok \in BOOLEAN :
          IF ok
          THEN /\ metadata_db_cursor' = [metadata_db_cursor EXCEPT ![m] = "open"]
               /\ cb_pc' = [cb_pc EXCEPT ![m] = "call"]
               /\ UNCHANGED cb_exc
          ELSE /\ cb_exc' = [cb_exc EXCEPT ![m] = TRUE]
               /\ cb_pc' = [cb_pc EXCEPT ![m] = "ack"]
               /\ UNCHANGED metadata_db_cursor
    /\ UNCHANGED <<queue, attrs, ack_count, runs, catalog_db_cursor, sf_pc, frame,
                   result, files, trace>>
    /\ UNCHANGED mi

\* Variant of CallSolveFile: the message is acknowledged on receipt, before
\* the pipeline runs.
CallSolveFileAfterAck(m) ==
    /\ cb_pc[m] = "call"
    /\ cb_pc' = [cb_pc EXCEPT ![m] = "wait"]
    /\ sf_pc' = [sf_pc EXCEPT ![m] = "entry"]
    /\ runs' = [runs EXCEPT ![m] = @ + 1]
    /\ ack_count' = [ack_count EXCEPT ![m] = @ + 1]
    /\ UNCHANGED <<queue, attrs, cb_exc, catalog_db_cursor,
                   metadata_db_cursor, frame, result, files, trace>>
    /\ UNCHANGED mi

\* status = solve_file(object_id, catalog_db_cursor, metadata_db_cursor): the call.
CallSolveFile(m) ==
    /\ cb_pc[m] = "call"
    /\ cb_pc' = [cb_pc EXCEPT ![m] = "wait"]
    /\ sf_pc' = [sf_pc EXCEPT ![m] = "entry"]
    /\ runs' = [runs EXCEPT ![m] = @ + 1]
    /\ UNCHANGED <<queue, attrs, cb_exc, ack_count, catalog_db_cursor,
                   metadata_db_cursor, frame, result, files, trace>>
    /\ UNCHANGED mi

\* solve_file has returned or raised; the callback takes the outcome and
\* control enters the finally block.  The record of the run's calls ends here.
SolveFileDone(m) ==
    /\ cb_pc[m] = "wait"
    /\ sf_pc[m] = "exit"
    /\ cb_exc' = [cb_exc EXCEPT ![m] = (result[m].kind = "raised")]
    /\ cb_pc' = [cb_pc EXCEPT ![m] = "ack"]
    /\ sf_pc' = [sf_pc EXCEPT ![m] = "done"]
    /\ trace' = [trace EXCEPT ![m] = <<>>]
    /\ UNCHANGED <<queue, attrs, ack_count, runs, catalog_db_cursor,
                   metadata_db_cursor, frame, result, files>>
    /\ UNCHANGED mi

\* Variant of Ack: the acknowledgment sits after the solve_file call inside
\* the try block, so an exception skips it.
AckUnlessFailed(m) ==
    /\ cb_pc[m] = "ack"
    /\ ack_count' = [ack_count EXCEPT ![m] = IF cb_exc[m] THEN @ ELSE @ + 1]
    /\ cb_pc' = [cb_pc EXCEPT ![m] = "close_catalog"]
    /\ UNCHANGED <<queue, attrs, cb_exc, runs, catalog_db_cursor, metadata_db_cursor,
                   sf_pc, frame, result, files, trace>>
    /\ UNCHANGED mi

\* finally: message.ack()
Ack(m) ==
    /\ cb_pc[m] = "ack"
    /\ ack_count' = [ack_count EXCEPT ![m] = @ + 1]
    /\ cb_pc' = [cb_pc EXCEPT ![m] = "close_catalog"]
    /\ UNCHANGED <<queue, attrs, cb_exc, runs, catalog_db_cursor, metadata_db_cursor,
                   sf_pc, frame, result, files, trace>>
    /\ UNCHANGED mi

\* Variant of CloseCatalog: the close sits inside the try block, so an
\* exception leaves the cursor as it is.
CloseCatalogUnlessFailed(m) ==
    /\ cb_pc[m] = "close_catalog"
    /\ IF cb_exc[m]
       THEN UNCHANGED catalog_db_cursor
       ELSE catalog_db_cursor' = [catalog_db_cursor EXCEPT ![m] = "closed"]
    /\ cb_pc' = [cb_pc EXCEPT ![m] = "close_metadata"]
    /\ UNCHANGED <<queue, attrs, cb_exc, ack_count, runs, metadata_db_cursor, sf_pc,
                   frame, result, files, trace>>
    /\ UNCHANGED mi

\* finally: catalog_db_cursor.close(); an unbound name raises UnboundLocalError.
CloseCatalog(m) ==
    /\ cb_pc[m] = "close_catalog"
    /\ IF catalog_db_cursor[m] = "unbound"
       THEN /\ cb_pc' = [cb_pc EXCEPT ![m] = "raised"]
            /\ cb_exc' = [cb_exc EXCEPT ![m] = TRUE]
            /\ UNCHANGED catalog_db_cursor
       ELSE /\ catalog_db_cursor' = [catalog_db_cursor EXCEPT ![m] = "closed"]
            /\ cb_pc' = [cb_pc EXCEPT ![m] = "close_metadata"]
            /\ UNCHANGED cb_exc
    /\ UNCHANGED <<queue, attrs, ack_count, runs, metadata_db_cursor, sf_pc, frame,
                   result, files, trace>>
    /\ UNCHANGED mi

\* finally: metadata_db_cursor.close(); then the callback returns, or re-raises
\* the exception that brought it into the finally block.
CloseMetadata(m) ==
    /\ cb_pc[m] = "close_metadata"
    /\ IF metadata_db_cursor[m] = "unbound"
       THEN /\ cb_pc' = [cb_pc EXCEPT ![m] = "raised"]
            /\ cb_exc' = [cb_exc EXCEPT ![m] = TRUE]
            /\ UNCHANGED metadata_db_cursor
       ELSE /\ metadata_db_cursor' = [metadata_db_cursor EXCEPT ![m] = "closed"]
            /\ cb_pc' = [cb_pc EXCEPT ![m] = IF cb_exc[m] THEN "raised" ELSE "done"]
            /\ UNCHANGED cb_exc
    /\ UNCHANGED <<queue, attrs, ack_count, runs, catalog_db_cursor, sf_pc, frame,
                   result, files, trace>>
    /\ UNCHANGED mi

----------------------------------------------------------------------------
(* solve_file, lines 74-173, one action per step of the pipeline. *)

CallbackVars == <<queue, attrs, cb_pc, cb_exc, ack_count, runs, catalog_db_cursor,
                  metadata_db_cursor>>

SetFrame(m, f) == frame' = [frame EXCEPT ![m] = f]
Log(m, events) == trace' = [trace EXCEPT ![m] = @ \o events]
Goto(m, pc) == sf_pc' = [sf_pc EXCEPT ![m] = pc]

\* except Exception as e: status = 'error' (lines 164-166); control then
\* enters the finally block.
ExceptHandler(m, f) ==
    /\ SetFrame(m, [f EXCEPT !.status = "error"])
    /\ Goto(m, "finally")

\* Variant of SolveFileEntry: the pointing test is missing.
SolveFileEntryNoSkip(m) ==
    /\ sf_pc[m] = "entry"
    /\ sf_pc' = [sf_pc EXCEPT ![m] = "parse"]
    /\ UNCHANGED <<queue, attrs, cb_pc, cb_exc, ack_count, runs, catalog_db_cursor,
                   metadata_db_cursor, frame, result, files, trace>>
    /\ UNCHANGED mi

\* Lines 76-77: pointing frames are skipped before the try block is entered.
SolveFileEntry(m) ==
    /\ sf_pc[m] = "entry"
    /\ IF IsPointing(attrs[m])
       THEN /\ result' = [result EXCEPT ![m] = Returned("skipped", attrs[m])]
            /\ Goto(m, "exit")
       ELSE /\ Goto(m, "parse")
            /\ UNCHANGED result
    /\ UNCHANGED <<CallbackVars, frame, files, trace>>
    /\ UNCHANGED mi

\* Lines 81-84: the tuple unpacking raises ValueError unless the key has
\* exactly five '/'-separated segments.
ParseKey(m) ==
    /\ sf_pc[m] = "parse"
    /\ LET parts == Split(attrs[m], "/")
           f == frame[m]
       IN  IF Len(parts) # 5
           THEN ExceptHandler(m, f)
           ELSE LET image_time == Split(parts[5], ".")[1]
                IN  /\ SetFrame(m, [f EXCEPT
                          !.unit_id = parts[1], !.field = parts[2], !.cam_id = parts[3],
                          !.seq_time = parts[4], !.file = parts[5],
                          !.image_time = image_time,
                          !.sequence_id = parts[1] \o <<"_">> \o parts[3] \o <<"_">> \o parts[4],
                          !.image_id = parts[1] \o <<"_">> \o parts[3] \o <<"_">> \o image_time])
                    /\ Goto(m, "download")
    /\ UNCHANGED <<CallbackVars, result, files, trace>>
    /\ UNCHANGED mi

\* Line 88: fz_fn = download_blob(object_id, destination='/tmp', bucket=bucket)
Download(m) ==
    /\ sf_pc[m] = "download"
    /\ \E ok \in BOOLEAN :
          /\ Log(m, IF ok
                    THEN <<Event("fetch", attrs[m], TRUE),
                           Event("create", DownloadPath(attrs[m]), TRUE)>>
                    ELSE <<Event("fetch", attrs[m], FALSE)>>)
          /\ IF ok
             THEN /\ files' = files \cup {DownloadPath(attrs[m])}
                  /\ SetFrame(m, [frame[m] EXCEPT !.fz_fn = DownloadPath(attrs[m])])
                  /\ Goto(m, "wcs")
             ELSE /\ ExceptHandler(m, frame[m])
                  /\ UNCHANGED files
    /\ UNCHANGED <<CallbackVars, result>>
    /\ UNCHANGED mi

\* Lines 92-94: wcs_info = fits_utils.get_wcsinfo(fz_fn); only its length is used.
InspectWCS(m) ==
    /\ sf_pc[m] = "wcs"
    /\ \E ok \in BOOLEAN, n \in 1..MaxWcsLen :
          /\ Log(m, <<Event("get_wcsinfo", frame[m].fz_fn, ok)>>)
          /\ IF ok
             THEN /\ SetFrame(m, [frame[m] EXCEPT !.wcs_len = n])
                  /\ Goto(m, "unpack")
             ELSE /\ n = 1
                  /\ ExceptHandler(m, frame[m])
    /\ UNCHANGED <<CallbackVars, result, files>>
    /\ UNCHANGED mi

\* Lines 98-100: fits_fn = fits_utils.fpack(fz_fn, unpack=True).  The call
\* raises, or returns the name of the unpacked file; funpack -D has replaced
\* the archive by that file, or has done nothing.  Line 99 then tests whether
\* a file of that name exists; the logged event carries the answer.
Unpack(m) ==
    /\ sf_pc[m] = "unpack"
    /\ \E outcome \in {"raise", "nothing", "unpacked"} :
          LET f == frame[m]
              fits_fn == UnpackedName(f.fz_fn)
              after == IF outcome = "unpacked"
                       THEN (files \ {f.fz_fn}) \cup {fits_fn}
                       ELSE files
              exists == outcome # "raise" /\ fits_fn \in after
          IN  /\ Log(m, IF outcome = "unpacked"
                        THEN <<Event("unpack", f.fz_fn, exists),
                               Event("create", fits_fn, TRUE)>>
                        ELSE <<Event("unpack", f.fz_fn, exists)>>)
              /\ files' = after
              /\ IF outcome = "raise" THEN ExceptHandler(m, f)
                 ELSE IF fits_fn \notin after
                      THEN ExceptHandler(m, [f EXCEPT !.fits_fn = fits_fn])
                      ELSE /\ SetFrame(m, [f EXCEPT !.fits_fn = fits_fn])
                           /\ Goto(m, "solve")
    /\ UNCHANGED <<CallbackVars, result>>
    /\ UNCHANGED mi

\* Variant of Solve: a solver failure returns 'unsolved' at once, before the
\* header is read.
SolveReturnsOnFailure(m) ==
    /\ sf_pc[m] = "solve"
    /\ \E outcome \in {"raise", "none", "info"} :
          /\ Log(m, <<Event("solve", frame[m].fits_fn, outcome # "raise")>>)
          /\ IF outcome = "raise"
             THEN /\ SetFrame(m, [frame[m] EXCEPT !.status = "unsolved", !.is_solved = FALSE,
                                      !.ret = Returned("unsolved", frame[m].fits_fn)])
                  /\ Goto(m, "finally")
             ELSE /\ SetFrame(m, [frame[m] EXCEPT
                         !.solve_info = IF outcome = "none" THEN None ELSE <<"solve_info">>,
                         !.status = "solved", !.is_solved = TRUE])
                  /\ Goto(m, "header")
    /\ UNCHANGED <<CallbackVars, result, files>>
    /\ UNCHANGED mi

\* Lines 104-114: the solver raises (or times out), or returns solve_info.
Solve(m) ==
    /\ sf_pc[m] = "solve"
    /\ \E outcome \in {"raise", "none", "info"} :
          /\ Log(m, <<Event("solve", frame[m].fits_fn, outcome # "raise")>>)
          /\ IF outcome = "raise"
             THEN SetFrame(m, [frame[m] EXCEPT !.status = "unsolved", !.is_solved = FALSE])
             ELSE SetFrame(m, [frame[m] EXCEPT
                      !.solve_info = IF outcome = "none" THEN None ELSE <<"solve_info">>,
                      !.status = "solved", !.is_solved = TRUE])
    /\ Goto(m, "header")
    /\ UNCHANGED <<CallbackVars, result, files>>
    /\ UNCHANGED mi

\* Variant of ReadHeader: the `if not is_solved: return` is missing.
ReadHeaderNoEarlyReturn(m) ==
    /\ sf_pc[m] = "header"
    /\ \E ok \in BOOLEAN :
          /\ Log(m, <<Event("getheader", frame[m].fits_fn, ok)>>)
          /\ IF ok
             THEN /\ Goto(m, "lookup")
                  /\ UNCHANGED frame
             ELSE ExceptHandler(m, frame[m])
    /\ UNCHANGED <<CallbackVars, result, files>>
    /\ UNCHANGED mi

\* Lines 118-124: the header is read for solved and unsolved images; an
\* unsolved image then executes `return {'status': status, ...}`, which is
\* held while the finally block runs.
ReadHeader(m) ==
    /\ sf_pc[m] = "header"
    /\ \E ok \in BOOLEAN :
          LET f == frame[m]
          IN  /\ Log(m, <<Event("getheader", f.fits_fn, ok)>>)
              /\ IF ~ok THEN ExceptHandler(m, f)
                 ELSE IF ~f.is_solved
                      THEN /\ SetFrame(m, [f EXCEPT !.ret = Returned(f.status, f.fits_fn)])
                           /\ Goto(m, "finally")
                      ELSE /\ Goto(m, "lookup")
                           /\ UNCHANGED frame
    /\ UNCHANGED <<CallbackVars, result, files>>
    /\ UNCHANGED mi

\* Lines 128-138: point_sources = pipeline.lookup_point_sources(...), annotated.
LookupSources(m) ==
    /\ sf_pc[m] = "lookup"
    /\ \E ok \in BOOLEAN :
          /\ Log(m, <<Event("lookup_point_sources", frame[m].fits_fn, ok)>>)
          /\ IF ok
             THEN /\ Goto(m, "stamps")
                  /\ UNCHANGED frame
             ELSE ExceptHandler(m, frame[m])
    /\ UNCHANGED <<CallbackVars, result, files>>
    /\ UNCHANGED mi

\* Lines 142-144: stamps = get_stamps(...), then the two stamps file names.
GetStamps(m) ==
    /\ sf_pc[m] = "stamps"
    /\ \E ok \in BOOLEAN :
          LET f == frame[m]
              stamps_fn == CsvKey(f.unit_id, f.field, f.cam_id, f.seq_time,
                                  "stamps", f.image_time)
          IN  /\ Log(m, <<Event("get_stamps", f.fits_fn, ok)>>)
              /\ IF ok
                 THEN /\ SetFrame(m, [f EXCEPT !.stamps_fn = stamps_fn,
                                               !.local_stamps_fn = LocalCsvPath(stamps_fn)])
                      /\ Goto(m, "stamps_csv")
                 ELSE ExceptHandler(m, f)
    /\ UNCHANGED <<CallbackVars, result, files>>
    /\ UNCHANGED mi

\* Variant of StoreStamps: a failure of to_csv or upload_blob is caught and
\* only logged, as for the sources CSV.
StoreStampsSwallowed(m) ==
    /\ sf_pc[m] = "stamps_csv"
    /\ \E outcome \in {"csv_fails", "upload_fails", "stored"} :
          LET f == frame[m]
          IN  IF outcome = "csv_fails"
              THEN /\ Log(m, <<Event("to_csv", f.local_stamps_fn, FALSE)>>)
                   /\ UNCHANGED files
              ELSE /\ files' = files \cup {f.local_stamps_fn}
                   /\ Log(m, <<Event("create", f.local_stamps_fn, TRUE),
                               Event("store", f.stamps_fn, outcome = "stored")>>)
    /\ Goto(m, "sources_csv")
    /\ UNCHANGED <<CallbackVars, result, frame>>
    /\ UNCHANGED mi

\* Lines 145-146: stamps.to_csv(local_stamps_fn); upload_blob(local_stamps_fn, stamps_fn).
StoreStamps(m) ==
    /\ sf_pc[m] = "stamps_csv"
    /\ \E outcome \in {"csv_fails", "upload_fails", "stored"} :
          LET f == frame[m]
          IN  IF outcome = "csv_fails"
              THEN /\ ExceptHandler(m, f)
                   /\ Log(m, <<Event("to_csv", f.local_stamps_fn, FALSE)>>)
                   /\ UNCHANGED files
              ELSE /\ files' = files \cup {f.local_stamps_fn}
                   /\ Log(m, <<Event("create", f.local_stamps_fn, TRUE),
                               Event("store", f.stamps_fn, outcome = "stored")>>)
                   /\ IF outcome = "stored"
                      THEN /\ Goto(m, "sources_csv")
                           /\ UNCHANGED frame
                      ELSE ExceptHandler(m, f)
    /\ UNCHANGED <<CallbackVars, result>>
    /\ UNCHANGED mi

\* Variant of StoreSources: the inner try/except is missing, so a failure of
\* to_csv or upload_blob reaches the outer except.
StoreSourcesUncaught(m) ==
    /\ sf_pc[m] = "sources_csv"
    /\ \E outcome \in {"csv_fails", "upload_fails", "stored"} :
          LET f == frame[m]
              bucket_csv == CsvKey(f.unit_id, f.field, f.cam_id, f.seq_time,
                                   "sources", f.image_time)
              local_csv == LocalCsvPath(bucket_csv)
              g == [f EXCEPT !.bucket_csv = bucket_csv, !.local_csv = local_csv]
          IN  /\ IF outcome = "csv_fails"
                 THEN /\ Log(m, <<Event("to_csv", local_csv, FALSE)>>)
                      /\ UNCHANGED files
                 ELSE /\ files' = files \cup {local_csv}
                      /\ Log(m, <<Event("create", local_csv, TRUE),
                                  Event("store", bucket_csv, outcome = "stored")>>)
              /\ IF outcome = "stored"
                 THEN /\ SetFrame(m, g)
                      /\ Goto(m, "reupload")
                 ELSE ExceptHandler(m, g)
    /\ UNCHANGED <<CallbackVars, result>>
    /\ UNCHANGED mi

\* Lines 149-156: the sources CSV; a failure of to_csv or upload_blob is
\* caught by the inner except and only logged.
StoreSources(m) ==
    /\ sf_pc[m] = "sources_csv"
    /\ \E outcome \in {"csv_fails", "upload_fails", "stored"} :
          LET f == frame[m]
              bucket_csv == CsvKey(f.unit_id, f.field, f.cam_id, f.seq_time,
                                   "sources", f.image_time)
              local_csv == LocalCsvPath(bucket_csv)
          IN  /\ SetFrame(m, [f EXCEPT !.bucket_csv = bucket_csv, !.local_csv = local_csv])
              /\ IF outcome = "csv_fails"
                 THEN /\ Log(m, <<Event("to_csv", local_csv, FALSE)>>)
                      /\ UNCHANGED files
                 ELSE /\ files' = files \cup {local_csv}
                      /\ Log(m, <<Event("create", local_csv, TRUE),
                                  Event("store", bucket_csv, outcome = "stored")>>)
    /\ Goto(m, "reupload")
    /\ UNCHANGED <<CallbackVars, result>>
    /\ UNCHANGED mi

\* Variant of NewlySolved: the WCS records found before solving are ignored.
NewlySolvedIgnoringWcs(f) == f.solve_info # None

\* Line 159: if solve_info is not None and len(wcs_info) == 1
NewlySolved(f) == f.solve_info # None /\ f.wcs_len = 1

\* Lines 159-163: a newly solved image is packed again (fpack -D replaces the
\* image by the archive) and stored under the original key; then
\* status = 'sources_extracted'.
Reupload(m) ==
    /\ sf_pc[m] = "reupload"
    /\ LET f == frame[m]
       IN  IF ~NewlySolved(f)
           THEN /\ SetFrame(m, [f EXCEPT !.status = "sources_extracted"])
                /\ Goto(m, "finally")
                /\ UNCHANGED <<files, trace>>
           ELSE \E outcome \in {"pack_fails", "upload_fails", "stored"} :
                   LET fz_fn == PackedName(f.fits_fn)
                   IN  IF outcome = "pack_fails"
                       THEN /\ ExceptHandler(m, f)
                            /\ Log(m, <<Event("pack", f.fits_fn, FALSE)>>)
                            /\ UNCHANGED files
                       ELSE /\ files' = (files \ {f.fits_fn}) \cup {fz_fn}
                            /\ Log(m, <<Event("pack", f.fits_fn, TRUE),
                                        Event("create", fz_fn, TRUE),
                                        Event("store", attrs[m], outcome = "stored")>>)
                            /\ IF outcome = "stored"
                               THEN /\ SetFrame(m, [f EXCEPT !.fz_fn = fz_fn,
                                                       !.status = "sources_extracted"])
                                    /\ Goto(m, "finally")
                               ELSE ExceptHandler(m, [f EXCEPT !.fz_fn = fz_fn])
    /\ UNCHANGED <<CallbackVars, result>>
    /\ UNCHANGED mi

\* Line 169: the names handed to os.remove.
CleanupNames(f) == <<f.fits_fn, f.fz_fn, f.local_csv>>

\* Lines 167-173: building the list reads three locals; an unbound one raises
\* UnboundLocalError, which replaces a pending return and leaves every file
\* in place.  Otherwise each file is removed (a missing one is tolerated) and
\* the pending return, or line 173, delivers the result.
Finally(m) ==
    /\ sf_pc[m] = "finally"
    /\ LET f == frame[m]
           names == CleanupNames(f)
       IN  IF \E i \in 1..Len(names) : names[i] = Unbound
           THEN /\ result' = [result EXCEPT ![m] = Raised(<<"UnboundLocalError">>)]
                /\ UNCHANGED <<files, trace>>
           ELSE /\ files' = files \ {names[i] : i \in 1..Len(names)}
                /\ Log(m, [i \in 1..Len(names) |-> Event("remove", names[i], names[i] \in files)])
                /\ result' = [result EXCEPT ![m] =
                                 IF f.ret # Unbound THEN f.ret
                                 ELSE Returned(f.status, f.fits_fn)]
    /\ SetFrame(m, EmptyFrame)
    /\ Goto(m, "exit")
    /\ UNCHANGED CallbackVars
    /\ UNCHANGED mi

----------------------------------------------------------------------------
Next ==
    \E m \in Msgs :
       \/ Deliver(m)
       \/ GetCatalogCursor(m)
       \/ GetMetadataCursor(m)
       \/ CallSolveFile(m)
       \/ SolveFileDone(m)
       \/ Ack(m)
       \/ CloseCatalog(m)
       \/ CloseMetadata(m)
       \/ SolveFileEntry(m)
       \/ ParseKey(m)
       \/ Download(m)
       \/ InspectWCS(m)
       \/ Unpack(m)
       \/ Solve(m)
       \/ ReadHeader(m)
       \/ LookupSources(m)
       \/ GetStamps(m)
       \/ StoreStamps(m)
       \/ StoreSources(m)
       \/ Reupload(m)
       \/ Finally(m)

Spec == Init /\ [][Next]_vars

----------------------------------------------------------------------------
(* Vocabulary of the properties. *)

\* The solve_file run of message m has ended and msg_callback has not yet
\* taken its outcome.
Ended(m) == sf_pc[m] = "exit"

\* msg_callback has finished for message m, by returning or by raising.
Finished(m) == cb_pc[m] \in {"done", "raised"}

Events(m) == {trace[m][i] : i \in 1..Len(trace[m])}
Called(m, op) == \E e \in Events(m) : e.op = op
Failed(m, op) == \E e \in Events(m) : e.op = op /\ ~e.ok

\* Local files written by the run of message m.
Created(m) == {e.arg : e \in {x \in Events(m) : x.op = "create"}}

ReturnedStatus(m, status) == result[m].kind = "returned" /\ result[m].status = status

TerminalStatuses == {"skipped", "unsolved", "sources_extracted", "error"}

----------------------------------------------------------------------------
(* C1: when a run that entered the pipeline ends, by any exit path, none of
   the local files it wrote (archive, image, CSVs) still exists. *)
NoScratchFileLeft ==
    \A m \in Msgs :
       (Ended(m) /\ ~IsPointing(attrs[m])) => Created(m) \cap files = {}

(* C2: solve_file never ends by raising: every run ends by returning a
   status value. *)
NoExceptionEscapes ==
    \A m \in Msgs : Ended(m) => result[m].kind = "returned"

(* C3: whenever the solver raised or timed out, the run returns a result
   whose status is exactly 'unsolved'. *)
SolverFailureReturnsUnsolved ==
    \A m \in Msgs :
       (Ended(m) /\ Failed(m, "solve")) => ReturnedStatus(m, "unsolved")

(* C4: message.ack() is called exactly once for every delivered message:
   never more than once at any time, and once by the time msg_callback has
   finished, whatever happened in between. *)
AckExactlyOnce ==
    \A m \in Msgs :
       /\ ack_count[m] <= 1
       /\ cb_pc[m] \in {"close_catalog", "close_metadata", "done", "raised"}
             => ack_count[m] = 1
       /\ cb_pc[m] \in {"queued", "get_catalog", "get_metadata", "call", "wait", "ack"}
             => ack_count[m] = 0

\* C4 witness: a callback through which solve_file's exception propagated
\* has finished with its message acknowledged once.
AckedAfterRaise ==
    \E m \in Msgs :
       cb_pc[m] = "raised" /\ runs[m] = 1 /\ result[m].kind = "raised"
          /\ ack_count[m] = 1

(* C5, as stated: an acknowledged message has had exactly one solve_file
   invocation, which finished before the acknowledgment. *)
AckOnlyAfterOneRun ==
    \A m \in Msgs :
       /\ runs[m] <= 1
       /\ ack_count[m] > 0 => (runs[m] = 1 /\ sf_pc[m] = "done")

(* C5, amended: a message triggers at most one solve_file invocation; the
   acknowledgment never happens while that invocation is pending or in
   progress; it follows exactly one finished invocation when both cursors
   were acquired, and no invocation at all when get_cursor failed. *)
AckAfterRunOrCursorFailure ==
    \A m \in Msgs :
       /\ runs[m] <= 1
       /\ ack_count[m] > 0 =>
             IF metadata_db_cursor[m] = "unbound"
             THEN runs[m] = 0 /\ sf_pc[m] = "idle"
             ELSE runs[m] = 1 /\ sf_pc[m] = "done"
       /\ (cb_pc[m] = "ack" /\ metadata_db_cursor[m] # "unbound")
             => (runs[m] = 1 /\ sf_pc[m] = "done")

\* C5 witness: a message acknowledged after its one run has finished.
AckedAfterRun ==
    \E m \in Msgs :
       ack_count[m] = 1 /\ runs[m] = 1 /\ sf_pc[m] = "done"
          /\ metadata_db_cursor[m] # "unbound"

(* C6, as stated: every cursor opened for a message is closed by the time
   its msg_callback finishes, and no cursor opened for one message is still
   open once a later message has been delivered. *)
CursorsNeverOutliveJob ==
    \A m \in Msgs :
       /\ Finished(m) =>
             (catalog_db_cursor[m] # "open" /\ metadata_db_cursor[m] # "open")
       /\ \A n \in Msgs :
             (m < n /\ cb_pc[n] # "queued") =>
                (catalog_db_cursor[m] # "open" /\ metadata_db_cursor[m] # "open")

(* C6, amended: every cursor opened for a message is closed by the time its
   msg_callback finishes; a cursor can still be open after a later message
   has been delivered only while its own callback stands between
   message.ack() and the close() calls of the same finally block. *)
CursorsClosedWhenFinished ==
    \A m \in Msgs :
       /\ Finished(m) =>
             (catalog_db_cursor[m] # "open" /\ metadata_db_cursor[m] # "open")
       /\ \A n \in Msgs :
             (m < n /\ cb_pc[n] # "queued"
                /\ (catalog_db_cursor[m] = "open" \/ metadata_db_cursor[m] = "open"))
             => (ack_count[m] = 1 /\ cb_pc[m] \in {"close_catalog", "close_metadata"})

\* C6 witness: the second get_cursor failed and the callback has finished
\* with the one cursor it opened closed.
CatalogClosedAfterMetadataFailure ==
    \E m \in Msgs :
       Finished(m) /\ catalog_db_cursor[m] = "closed"
          /\ metadata_db_cursor[m] = "unbound"

(* C7: a key without 'pointing' that does not split into exactly five
   segments ends with a returned status 'error', with no ArtifactStore fetch
   or store and no solver invocation in the run. *)
MalformedKeyReturnsError ==
    \A m \in Msgs :
       (Ended(m) /\ ~IsPointing(attrs[m]) /\ Len(Split(attrs[m], "/")) # 5) =>
          /\ ReturnedStatus(m, "error")
          /\ ~Called(m, "fetch") /\ ~Called(m, "store") /\ ~Called(m, "solve")

\* The unpack step of the run left no decompressed file.
UnpackLeftNoFile(m) ==
    \E e \in Events(m) : e.op = "unpack" /\ ~e.ok /\ UnpackedName(e.arg) \notin files

(* C8: when the download fails, or the unpack step leaves no decompressed
   file, the run ends with a returned status 'error' and never invokes the
   solver, the catalog lookup or an ArtifactStore write. *)
FetchOrUnpackFailureReturnsError ==
    \A m \in Msgs :
       (Ended(m) /\ (Failed(m, "fetch") \/ UnpackLeftNoFile(m))) =>
          /\ ReturnedStatus(m, "error")
          /\ ~Called(m, "solve") /\ ~Called(m, "lookup_point_sources")
          /\ ~Called(m, "store")

(* C9: for a key containing 'pointing', well-formed or not, solve_file
   returns status 'skipped' without a single step of the pipeline: no fetch,
   store, solver call, catalog lookup, file creation or file removal. *)
PointingSkipped ==
    \A m \in Msgs :
       IsPointing(attrs[m]) =>
          /\ sf_pc[m] \in {"idle", "entry", "exit", "done"}
          /\ trace[m] = <<>>
          /\ frame[m] = EmptyFrame
          /\ Ended(m) => result[m] = Returned("skipped", attrs[m])

\* C9 witness: a malformed pointing key has been skipped while files left
\* behind by an earlier run are still in place.
MalformedPointingSkipped ==
    \E m \in Msgs :
       Ended(m) /\ attrs[m] = KeyPointingShort /\ ReturnedStatus(m, "skipped")
          /\ files # {}

(* C10: every run yields one returned result whose status is one of
   'skipped', 'unsolved', 'sources_extracted', 'error'; 'solved' is never
   the status of a returned result. *)
EveryRunYieldsTerminalStatus ==
    \A m \in Msgs :
       /\ Ended(m) => (result[m].kind = "returned" /\ result[m].status \in TerminalStatuses)
       /\ result[m].kind = "returned" => result[m].status # "solved"

----------------------------------------------------------------------------
(* Vocabulary of the artifact properties. *)

HasToken(path, token) == \E i \in 1..Len(path) : path[i] = token

\* Calls of the pipeline proper, without the file bookkeeping.
StepEvents(m) == {e \in Events(m) : e.op \notin {"create", "remove"}}

\* Writing or uploading the sources CSV failed in the run of message m.
SourcesCsvFailed(m) ==
    \E e \in Events(m) :
       e.op \in {"to_csv", "store"} /\ ~e.ok /\ HasToken(e.arg, "sources")

\* ... and nothing else did.
OnlySourcesCsvFailed(m) ==
    /\ SourcesCsvFailed(m)
    /\ \A e \in StepEvents(m) : ~e.ok => HasToken(e.arg, "sources")

\* Keys the run has stored in the bucket, in order.
StoredKeys(m) ==
    LET stored == SelectSeq(trace[m], LAMBDA e : e.op = "store" /\ e.ok)
    IN  [i \in 1..Len(stored) |-> stored[i].arg]

\* Keys the run has tried to store in the bucket.
StoreAttempts(m) == {e.arg : e \in {x \in Events(m) : x.op = "store"}}

(* C11: a failure to write or upload the sources CSV is swallowed: the run
   goes on to the conditional re-upload step and, every other step
   succeeding, ends with the returned status 'sources_extracted'. *)
SourcesFailureSwallowed ==
    \A m \in Msgs :
       /\ SourcesCsvFailed(m) => sf_pc[m] \in {"reupload", "finally", "exit"}
       /\ OnlySourcesCsvFailed(m) =>
             /\ sf_pc[m] = "finally" => frame[m].status = "sources_extracted"
             /\ Ended(m) => ReturnedStatus(m, "sources_extracted")

\* C11 witness: the sources upload failed, the image was then stored back
\* and the run returned 'sources_extracted'.
ExtractedDespiteSourcesFailure ==
    \E m \in Msgs :
       /\ Ended(m) /\ OnlySourcesCsvFailed(m)
       /\ ReturnedStatus(m, "sources_extracted")
       /\ attrs[m] \in StoreAttempts(m)

(* C12: the image is stored back under the original objectKey only if the
   solver produced a solution in this run and the WCS inspection found
   exactly one record; a run whose solver failed, or that found more than
   one WCS record, never writes to the original objectKey. *)
ReuploadOnlyWhenNewlySolved ==
    \A m \in Msgs :
       /\ attrs[m] \in StoreAttempts(m) =>
             /\ \E e \in Events(m) : e.op = "solve" /\ e.ok
             /\ ~Failed(m, "solve")
             /\ sf_pc[m] = "finally" =>
                   /\ frame[m].is_solved
                   /\ frame[m].solve_info \notin {Unbound, None}
                   /\ frame[m].wcs_len = 1
       /\ (frame[m].wcs_len > 1 \/ Failed(m, "solve")) => attrs[m] \notin StoreAttempts(m)

\* C12 witness: a newly solved image with one WCS record has been stored
\* back under its original key.
SolvedImageStoredBack ==
    \E m \in Msgs :
       /\ sf_pc[m] = "finally" /\ frame[m].wcs_len = 1 /\ frame[m].is_solved
       /\ \E i \in 1..Len(StoredKeys(m)) : StoredKeys(m)[i] = attrs[m]

\* The artifact keys of KeyGood, written out.
KeyGoodStamps ==
    <<"PAN001", "/", "M42", "/", "14d3bd", "/", "20220101T000000", "/",
      "stamps", "-", "20220101T000500", ".", "csv">>
KeyGoodSources ==
    <<"PAN001", "/", "M42", "/", "14d3bd", "/", "20220101T000000", "/",
      "sources", "-", "20220101T000500", ".", "csv">>

\* No call of the run has failed.
NoStepFailed(m) == \A e \in StepEvents(m) : e.ok

(* C13: in a run where every step succeeds the bucket receives exactly the
   stamps CSV and the sources CSV, under
   {unit}/{field}/{camera}/{sequence}/stamps-{time}.csv and .../sources-{time}.csv,
   and one more write, to the original objectKey, exactly when the re-upload
   condition holds; no other key is written. *)
SuccessfulRunWrites ==
    \A m \in Msgs :
       /\ (sf_pc[m] = "finally" /\ frame[m].status = "sources_extracted" /\ NoStepFailed(m)) =>
             /\ attrs[m] = KeyGood
             /\ StoredKeys(m) =
                   <<KeyGoodStamps, KeyGoodSources>> \o
                   (IF frame[m].solve_info # None /\ frame[m].wcs_len = 1
                    THEN <<KeyGood>> ELSE <<>>)
             /\ StoreAttempts(m) \subseteq {KeyGoodStamps, KeyGoodSources, KeyGood}
       /\ (Ended(m) /\ ReturnedStatus(m, "sources_extracted") /\ NoStepFailed(m)) =>
             StoredKeys(m) \in {<<KeyGoodStamps, KeyGoodSources>>,
                                <<KeyGoodStamps, KeyGoodSources, KeyGood>>}

\* C13 witness: a fully successful run has ended with three writes.
ThreeWritesOnSuccess ==
    \E m \in Msgs :
       /\ Ended(m) /\ ReturnedStatus(m, "sources_extracted") /\ NoStepFailed(m)
       /\ StoredKeys(m) = <<KeyGoodStamps, KeyGoodSources, KeyGood>>

(* C14: in a run whose solver fails or times out the bucket receives no
   write at all, the download being the run's only ArtifactStore operation,
   and the catalog lookup and the stamp extraction are never invoked. *)
NoWritesWhenUnsolved ==
    \A m \in Msgs :
       Failed(m, "solve") =>
          /\ StoreAttempts(m) = {}
          /\ Cardinality({i \in 1..Len(trace[m]) : trace[m][i].op = "fetch"}) = 1
          /\ ~Called(m, "lookup_point_sources")
          /\ ~Called(m, "get_stamps")
          /\ ~Called(m, "pack")
          /\ sf_pc[m] \in {"header", "finally", "exit"}

\* C14 witness: a run has ended after a solver failure and a successful
\* header read.
UnsolvedRunEnded ==
    \E m \in Msgs :
       /\ Ended(m) /\ Failed(m, "solve")
       /\ \E e \in Events(m) : e.op = "getheader" /\ e.ok

\* The local sources CSV never existed in the run of message m.
SourcesCsvNeverWritten(m) == ~\E p \in Created(m) : HasToken(p, "sources")

(* C15: the cleanup neither raises nor changes the outcome when a file it
   would remove never existed, the run having ended before the file's path
   was determined or not (the local CSV of an unsolved run, the archive of
   a failed parse or download); the other scratch files are still removed. *)
CleanupToleratesMissingFiles ==
    \A m \in Msgs :
       (Ended(m) /\ ~IsPointing(attrs[m]) /\ SourcesCsvNeverWritten(m)) =>
          /\ result[m].kind = "returned"
          /\ {p \in Created(m) : ~HasToken(p, "stamps")} \cap files = {}

----------------------------------------------------------------------------
(* Order of the steps. *)

\* Position of a call in the pipeline: 1 parse key (not a call), 2 download,
\* 3 inspect WCS, 4 unpack, 5 solve, 6 read header, 7 look up sources,
\* 8 extract stamps, 9 store stamps CSV, 10 store sources CSV, 11 re-upload.
StepRank(e) ==
    CASE e.op = "fetch" -> 2
      [] e.op = "get_wcsinfo" -> 3
      [] e.op = "unpack" -> 4
      [] e.op = "solve" -> 5
      [] e.op = "getheader" -> 6
      [] e.op = "lookup_point_sources" -> 7
      [] e.op = "get_stamps" -> 8
      [] e.op \in {"to_csv", "store"} /\ HasToken(e.arg, "stamps") -> 9
      [] e.op \in {"to_csv", "store"} /\ HasToken(e.arg, "sources") -> 10
      [] OTHER -> 11

\* The calls of the run in the order made, without the file bookkeeping.
Steps(m) == SelectSeq(trace[m], LAMBDA e : e.op \notin {"create", "remove"})

(* C16: within one run the steps occur only in the order parse key,
   download, inspect WCS, unpack, solve, read header, look up sources,
   extract stamps, store stamps CSV, store sources CSV, re-upload: none is
   skipped or repeated, none starts before its predecessor is over, the
   header is read after a failed solve as after a successful one, and lookup,
   stamp extraction and every store follow a successful solve. *)
StepsInOrder ==
    \A m \in Msgs :
       LET steps == Steps(m)
       IN  /\ (Len(steps) > 0 /\ sf_pc[m] # "exit") => frame[m].unit_id # Unbound
           /\ Len(steps) > 0 => StepRank(steps[1]) = 2
           /\ \A i \in 1..(Len(steps) - 1) :
                 /\ StepRank(steps[i + 1]) \in {StepRank(steps[i]), StepRank(steps[i]) + 1}
                 /\ StepRank(steps[i + 1]) = StepRank(steps[i]) => StepRank(steps[i]) = 11
                 /\ ~steps[i].ok => StepRank(steps[i]) \in {5, 10}
           /\ (Called(m, "solve") /\ sf_pc[m] # "header") => Called(m, "getheader")
           /\ (\E e \in Events(m) : StepRank(e) >= 7 /\ e.op \notin {"create", "remove"})
                 => (\E e \in Events(m) : e.op = "solve" /\ e.ok)

\* C16 witness: a run has gone through every step, the re-upload included.
AllStepsTaken ==
    \E m \in Msgs :
       /\ sf_pc[m] = "finally"
       /\ {StepRank(e) : e \in StepEvents(m)} = 2..11
       /\ NoStepFailed(m)

----------------------------------------------------------------------------
\* solve_file is executing for message m.
Running(m) == sf_pc[m] \notin {"idle", "exit", "done"}

(* C17: with flow control at one in-flight message, at most one solve_file
   execution is in progress at any time: when the run of a message starts,
   the run of every message delivered before it has finished (or never
   started), so no two runs touch the scratch files concurrently. *)
OneRunAtATime ==
    /\ Cardinality({m \in Msgs : Running(m)}) <= 1
    /\ \A m, n \in Msgs :
          (m < n /\ sf_pc[n] # "idle") =>
             \/ sf_pc[m] = "done"
             \/ sf_pc[m] = "idle" /\ ack_count[m] = 1

\* C17 witness: the second message's run is under way while the first
\* callback, its run over and its message acknowledged, has yet to close
\* its cursors.
SecondRunAfterFirstAck ==
    \E m, n \in Msgs :
       /\ m < n /\ sf_pc[m] = "done" /\ cb_pc[m] = "close_catalog"
       /\ sf_pc[n] = "solve"

----------------------------------------------------------------------------
(* meta_insert, lines 253-303. *)

PipelineVars == <<queue, attrs, cb_pc, cb_exc, ack_count, runs, catalog_db_cursor,
                  metadata_db_cursor, sf_pc, frame, result, files, trace>>

Tables == {"images", "sequences"}
ColumnNames == {"id", "sequence_id", "state"}

\* **kwargs: column/value pairs with distinct names, in call order.
KwargLists ==
    {k \in UNION {[1..n -> ColumnNames] : n \in 0..MaxCols} :
        \A i, j \in 1..Len(k) : i # j => k[i] # k[j]}

\* sep.join(items)
RECURSIVE StrJoin(_, _)
StrJoin(items, sep) ==
    IF Len(items) = 0 THEN <<>>
    ELSE IF Len(items) = 1 THEN items[1]
    ELSE items[1] \o <<sep>> \o StrJoin(Tail(items), sep)

\* Variant of UpdateCols: 'id' is not skipped.
UpdateColsWithId(col_names) ==
    [i \in 1..Len(col_names) |-> <<col_names[i], " = EXCLUDED.", col_names[i]>>]

\* Lines 281-285: '{0} = EXCLUDED.{0}' for every column but 'id'.
RECURSIVE UpdateCols(_)
UpdateCols(col_names) ==
    IF Len(col_names) = 0 THEN <<>>
    ELSE IF Head(col_names) \in {"id"} THEN UpdateCols(Tail(col_names))
    ELSE <<<<Head(col_names), " = EXCLUDED.", Head(col_names)>>>>
            \o UpdateCols(Tail(col_names))

\* Lines 277-292: the statement text.
InsertSql(table, col_names, col_values, update_cols) ==
    <<"INSERT INTO ", table, " (">>
       \o StrJoin([i \in 1..Len(col_names) |-> <<col_names[i]>>], ",")
       \o <<") VALUES (">>
       \o StrJoin([i \in 1..Len(col_values) |-> <<"%s">>], ",")
       \o <<") ON CONFLICT (id) DO UPDATE SET ">>
       \o StrJoin(update_cols, ", ")

\* A call meta_insert(table, cursor, **kwargs) is about to start.
InitInsert ==
    /\ queue = <<>>
    /\ attrs = [m \in Msgs |-> KeyGood]
    /\ cb_pc = [m \in Msgs |-> "queued"]
    /\ cb_exc = [m \in Msgs |-> FALSE]
    /\ ack_count = [m \in Msgs |-> 0]
    /\ runs = [m \in Msgs |-> 0]
    /\ catalog_db_cursor = [m \in Msgs |-> "unbound"]
    /\ metadata_db_cursor = [m \in Msgs |-> "unbound"]
    /\ sf_pc = [m \in Msgs |-> "idle"]
    /\ frame = [m \in Msgs |-> EmptyFrame]
    /\ result = [m \in Msgs |-> NoResult]
    /\ files = {}
    /\ trace = [m \in Msgs |-> <<>>]
    /\ \E table \in Tables, kwargs \in KwargLists, cursor \in {"none", "closed", "open"} :
          mi = [NoInsert EXCEPT !.pc = "start", !.table = table, !.kwargs = kwargs,
                                !.cursor = cursor]

\* Lines 268-269: a missing or closed cursor is replaced by a new one;
\* get_cursor may raise, and nothing catches that.
MetaInsertGetCursor ==
    /\ mi.pc = "start"
    /\ IF mi.cursor \in {"none", "closed"}
       THEN \E ok \in BOOLEAN :
               mi' = IF ok THEN [mi EXCEPT !.cursor = "open", !.pc = "build"]
                     ELSE [mi EXCEPT !.pc = "raised"]
       ELSE mi' = [mi EXCEPT !.pc = "build"]
    /\ UNCHANGED PipelineVars

\* Lines 271-292: column names, values, update set and statement.
MetaInsertBuild ==
    /\ mi.pc = "build"
    /\ LET col_names == mi.kwargs
           col_values == [i \in 1..Len(mi.kwargs) |-> <<"value of", mi.kwargs[i]>>]
           update_cols == UpdateCols(col_names)
       IN  mi' = [mi EXCEPT !.col_names = col_names, !.col_values = col_values,
                            !.update_cols = update_cols,
                            !.insert_sql = InsertSql(mi.table, col_names, col_values,
                                                     update_cols),
                            !.pc = "execute"]
    /\ UNCHANGED PipelineVars

\* Lines 294-303: cursor.execute raises and False is returned, or it succeeds
\* and True is returned.
MetaInsertExecute ==
    /\ mi.pc = "execute"
    /\ \E ok \in BOOLEAN :
          /\ mi' = [mi EXCEPT !.executed = IF ok THEN "ok" ELSE "failed",
                              !.ret = ok, !.pc = "returned"]
    /\ UNCHANGED PipelineVars

NextInsert == MetaInsertGetCursor \/ MetaInsertBuild \/ MetaInsertExecute

SpecInsert == InitInsert /\ [][NextInsert]_vars

\* Non-id columns of the call, in order.
NonIdColumns == SelectSeq(mi.kwargs, LAMBDA c : c # "id")

(* C18: meta_insert never raises on an execution error: whatever the table
   and the column/value pairs, 'id' alone included, it returns False when
   executing the upsert fails and True when it succeeds, and the update set
   of the statement holds every supplied column except 'id'. *)
MetaInsertReturnsBool ==
    /\ mi.pc = "raised" => mi.executed = "no"
    /\ mi.executed = "failed" => (mi.pc = "returned" /\ mi.ret = FALSE)
    /\ mi.executed = "ok" => (mi.pc = "returned" /\ mi.ret = TRUE)
    /\ mi.pc = "returned" => mi.executed # "no"
    /\ mi.pc \in {"execute", "returned"} =>
          /\ Len(mi.update_cols) = Len(NonIdColumns)
          /\ \A i \in 1..Len(NonIdColumns) :
                mi.update_cols[i] = <<NonIdColumns[i], " = EXCLUDED.", NonIdColumns[i]>>
          /\ mi.insert_sql =
                InsertSql(mi.table, mi.kwargs, mi.col_values,
                          [i \in 1..Len(NonIdColumns) |->
                              <<NonIdColumns[i], " = EXCLUDED.", NonIdColumns[i]>>])

\* C18 witness: a call with the single column 'id' has failed to execute and
\* returned False.
IdOnlyInsertReturnsFalse ==
    /\ mi.pc = "returned" /\ mi.kwargs = <<"id">>
    /\ mi.executed = "failed" /\ mi.ret = FALSE

----------------------------------------------------------------------------
Succeeded(m, op) == \E e \in Events(m) : e.op = op /\ e.ok

\* The stamps CSV of the run is in the bucket.
StampsStored(m) ==
    \E e \in Events(m) : e.op = "store" /\ e.ok /\ HasToken(e.arg, "stamps")

\* The sources CSV of the run is in the bucket.
SourcesStored(m) ==
    \E e \in Events(m) : e.op = "store" /\ e.ok /\ HasToken(e.arg, "sources")

(* C19: whenever a run ends with status 'sources_extracted', its solver
   succeeded, the catalog lookup and the stamp extraction completed and the
   stamps CSV was stored; the sources CSV and the solved image may or may
   not have been stored. *)
ExtractedImpliesStampsStored ==
    \A m \in Msgs :
       ((Ended(m) /\ ReturnedStatus(m, "sources_extracted"))
          \/ (sf_pc[m] = "finally" /\ frame[m].status = "sources_extracted")) =>
          /\ Succeeded(m, "solve") /\ ~Failed(m, "solve")
          /\ Succeeded(m, "getheader")
          /\ Succeeded(m, "lookup_point_sources")
          /\ Succeeded(m, "get_stamps")
          /\ StampsStored(m)

\* C19 witness: a run has returned 'sources_extracted' with the stamps CSV
\* stored and neither the sources CSV nor the image.
ExtractedWithStampsOnly ==
    \E m \in Msgs :
       /\ Ended(m) /\ ReturnedStatus(m, "sources_extracted")
       /\ StampsStored(m) /\ ~SourcesStored(m)
       /\ attrs[m] \notin StoreAttempts(m)

\* Writing or uploading the stamps CSV failed in the run of message m.
StampsCsvFailed(m) ==
    \E e \in Events(m) :
       e.op \in {"to_csv", "store"} /\ ~e.ok /\ HasToken(e.arg, "stamps")

\* Packing or uploading the solved image failed in the run of message m.
ReuploadFailed(m) ==
    \E e \in Events(m) :
       ~e.ok /\ (e.op = "pack" \/ (e.op = "store" /\ e.arg = attrs[m]))

(* C20: a failure to write or upload the stamps CSV is fatal: the run ends
   with status 'error' and stores neither the sources CSV nor the solved
   image; a failure of the conditional re-upload ends the run with status
   'error' too, the stamps CSV (and the sources CSV, if it was stored)
   staying in the bucket. *)
StampsOrReuploadFailureReturnsError ==
    \A m \in Msgs :
       /\ (Ended(m) /\ StampsCsvFailed(m)) =>
             /\ ReturnedStatus(m, "error")
             /\ ~SourcesStored(m)
             /\ attrs[m] \notin StoreAttempts(m)
       /\ (Ended(m) /\ ReuploadFailed(m)) =>
             /\ ReturnedStatus(m, "error")
             /\ StampsStored(m)

====
